---- MODULE Spec2Model ----
(***************************************************************************)
(* A model of JsonManager (src/src/JsonManager.ts): the in-memory tables   *)
(* items, parents, assignments and rules, the three persisted documents,   *)
(* and one action per method of the manager.                               *)
(*                                                                         *)
(* JavaScript Maps are modelled as functions whose DOMAIN is the key set.  *)
(* Insertion order is not tracked: where the code's result depends on the  *)
(* iteration order of a Map (removeChildren, detectLoop on a cyclic        *)
(* graph) the model allows every order.                                    *)
(*                                                                         *)
(* Item objects are mutable and are shared by reference between the items  *)
(* table and the parents table (parents.get(child).get(parent) is an Item  *)
(* object, and detectLoop reads its .name).  An edge's reference is        *)
(* either Live (the very object now stored in items under the edge's       *)
(* parent key) or the name carried by an object that is no longer in the   *)
(* items table.  Callers pass either a newly constructed Item or the       *)
(* object they obtained from the table.                                    *)
(***************************************************************************)
EXTENDS Naturals, Sequences, FiniteSets, TLC

\* ------------------------------------------------------------ universes
Names == {"a", "b", "c"}
Users == {"u1", "u2"}
RuleNames == {"r1", "r2"}
Kinds == {"role", "permission"}
Null == "null"
Live == "<live>"

\* How many calls a behaviour makes, and how many of its writes may fail.
MaxCalls == 6
MaxFailures == 1

VARIABLES
    items,           \* this.items: name -> Item object (its fields)
    parents,         \* this.parents: child name -> parent name -> Item reference
    assignments,     \* this.assignments: username -> key -> Assignment.itemName
    rules,           \* this.rules: name -> Rule (its fields)
    itemsDoc,        \* the content of itemFile
    assignmentsDoc,  \* the content of assignmentFile
    rulesDoc,        \* the content of ruleFile
    calls,           \* how many calls have been made so far
    failures,        \* how many writes have failed so far
    last             \* the last call: its name, its outcome, the writes it
                     \* attempted and whether it changed a table

vars == <<items, parents, assignments, rules, itemsDoc, assignmentsDoc, rulesDoc,
          calls, failures, last>>

\* ------------------------------------------------------------ Map helpers
EmptyMap == [x \in {} |-> Null]
MapSet(m, k, v) == [x \in (DOMAIN m) \cup {k} |-> IF x = k THEN v ELSE m[x]]
MapDelete(m, k) == [x \in (DOMAIN m) \ {k} |-> m[x]]
MapHas(m, k) == k \in DOMAIN m

InSeq(x, s) == \E i \in 1..Len(s) : s[i] = x

\* new Role({name, ...}) / new Permission({name, ...})
Item(name, type, ruleName, description) ==
    [name |-> name, type |-> type, ruleName |-> ruleName, description |-> description]

\* ------------------------------------------------------------ persistence
\* A call attempts the writes of ws in order; the write number f fails (none
\* does when f is not an index of ws), and a failed write raises: the writes
\* after it are not attempted and the failed document keeps its content.
WriteFails(ws, f) == f \in 1..Len(ws)
Attempted(ws, f) == IF WriteFails(ws, f) THEN SubSeq(ws, 1, f) ELSE ws
Written(ws, f) == IF WriteFails(ws, f) THEN SubSeq(ws, 1, f - 1) ELSE ws

\* getChildren(parentName) over given tables: the child keys listing parentName
getChildrenOf(pars, parentName) ==
    {c \in DOMAIN pars : MapHas(pars[c], parentName)}

\* saveItems: one entry per item of this.items, children from getChildren
saveItemsDoc(its, pars) ==
    [k \in DOMAIN its |->
        [type |-> its[k].type, name |-> its[k].name,
         description |-> its[k].description, ruleName |-> its[k].ruleName,
         children |-> getChildrenOf(pars, k)]]

\* saveAssignments: username -> the itemName of every assignment of the bucket
saveAssignmentsDoc(asg) ==
    [u \in DOMAIN asg |-> {asg[u][k] : k \in DOMAIN asg[u]}]

\* saveRules: keyed by rule.name
saveRulesDoc(rls) ==
    [n \in {rls[k].name : k \in DOMAIN rls} |->
        LET k == CHOOSE k \in DOMAIN rls : rls[k].name = n
        IN  [name |-> n, data |-> rls[k].data]]

\* ------------------------------------------------------------ hierarchy
\* The name an edge's Item reference carries.
RefName(its, parentKey, ref) == IF ref = Live THEN its[parentKey].name ELSE ref

\* The references stored under parent key k stop being the table's object:
\* they keep the name that object carries.
Detach(its, pars, k) ==
    [c \in DOMAIN pars |->
        [p \in DOMAIN pars[c] |->
            IF p = k /\ pars[c][p] = Live THEN its[k].name ELSE pars[c][p]]]

\* detectLoop(parent, child): the set of outcomes over the iteration orders of
\* the inner Maps.  "overflow" is the unbounded recursion of a walk that comes
\* back to a name on its own call stack.
RECURSIVE detectLoopWalk(_, _, _, _, _)
detectLoopWalk(its, pars, parentName, childName, stack) ==
    IF parentName = childName THEN {"true"}
    ELSE IF ~MapHas(pars, parentName) \/ ~MapHas(its, childName) THEN {"false"}
    ELSE IF parentName \in stack THEN {"overflow"}
    ELSE LET subs == {detectLoopWalk(its, pars, RefName(its, g, pars[parentName][g]),
                                     childName, stack \cup {parentName}) :
                          g \in DOMAIN pars[parentName]}
         IN  (IF \E s \in subs : "true" \in s THEN {"true"} ELSE {})
             \cup (IF \E s \in subs : "overflow" \in s THEN {"overflow"} ELSE {})
             \cup (IF \A s \in subs : "false" \in s THEN {"false"} ELSE {})

detectLoop(its, pars, parentName, childName) ==
    detectLoopWalk(its, pars, parentName, childName, {})

\* hasChild(parent, child)
hasChild(pars, parentName, childName) ==
    MapHas(pars, childName) /\ MapHas(pars[childName], parentName)

\* The edge set: <<parent, child>> for every parent key of every child key.
Edges(pars) == {e \in Names \X Names : hasChild(pars, e[1], e[2])}

\* getChildrenRecursive(name, result): the names result holds when the call
\* returns.  A child already in result is skipped, a new one is pushed and
\* its own children are walked at once.
RECURSIVE getChildrenRecursive(_, _, _)
getChildrenRecursive(pars, name, result) ==
    LET todo == {c \in getChildrenOf(pars, name) : c \notin result}
    IN  IF todo = {} THEN result
        ELSE LET c == CHOOSE c \in todo : TRUE
             IN  getChildrenRecursive(pars, name,
                     getChildrenRecursive(pars, c, result \cup {c}))

\* getDirectPermissionsByUser(username): this.items.get(assignment.itemName)!
\* is undefined for an assignment whose item is not in the table, and reading
\* its .type raises a TypeError.  The result is the set of keys of the Map.
getDirectPermissionsByUser(its, asg, username) ==
    LET bucket == IF MapHas(asg, username) THEN asg[username] ELSE EmptyMap
    IN  IF \E k \in DOMAIN bucket : ~MapHas(its, bucket[k])
        THEN [error |-> "TypeError", names |-> {}]
        ELSE [error |-> "",
              names |-> {k \in DOMAIN bucket : its[bucket[k]].type = "permission"}]

\* getInheritedPermissionsByUser, lines 716-719: one result list for all the
\* assigned names
RECURSIVE getChildrenRecursiveAll(_, _, _)
getChildrenRecursiveAll(pars, names, result) ==
    IF names = {} THEN result
    ELSE LET n == CHOOSE n \in names : TRUE
         IN  getChildrenRecursiveAll(pars, names \ {n},
                                     getChildrenRecursive(pars, n, result))

getInheritedPermissionsByUser(its, pars, asg, username) ==
    LET bucket == IF MapHas(asg, username) THEN asg[username] ELSE EmptyMap
        result == getChildrenRecursiveAll(pars, DOMAIN bucket, {})
    IN  [error |-> "",
         names |-> {n \in result : MapHas(its, n) /\ its[n].type = "permission"}]

\* getPermissionsByUser(username)
getPermissionsByUser(its, pars, asg, username) ==
    LET direct == getDirectPermissionsByUser(its, asg, username)
        inherited == getInheritedPermissionsByUser(its, pars, asg, username)
    IN  IF direct.error # "" THEN direct
        ELSE [error |-> "", names |-> direct.names \cup inherited.names]

\* The default roles the manager is configured with (defaultRoles option).
DefaultRoles == {"myDefaultRole"}

\* BaseManager.getDefaultRoleInstances(), of the package @iushev/rbac: a new
\* Map holding one Role per configured default role name, keyed by the name.
getDefaultRoleInstances == DefaultRoles

\* getRolesByUser without the ?. of line 56: the kind of a missing item is
\* read.
getRolesByUser_NoMissingItemTest(its, asg, username) ==
    LET bucket == IF MapHas(asg, username) THEN asg[username] ELSE EmptyMap
    IN  IF \E k \in DOMAIN bucket : ~MapHas(its, bucket[k])
        THEN [error |-> "TypeError", names |-> {}]
        ELSE [error |-> "",
              names |-> getDefaultRoleInstances
                        \cup {k \in DOMAIN bucket : its[bucket[k]].type = "role"}]

\* getRolesByUser(username): the default roles, then every assignment of the
\* user whose item is in the table and is a Role, under the assignment's key.
\* The result is the set of keys of the Map.
getRolesByUser(its, asg, username) ==
    LET bucket == IF MapHas(asg, username) THEN asg[username] ELSE EmptyMap
    IN  [error |-> "",
         names |-> getDefaultRoleInstances
                   \cup {k \in DOMAIN bucket :
                            MapHas(its, bucket[k]) /\ its[bucket[k]].type = "role"}]

\* getItems(type): the keys of the items of the kind
getItems(its, type) == {n \in DOMAIN its : its[n].type = type}

\* BaseManager.getRole(name), of the package @iushev/rbac: the item getItem
\* gives when it is a Role, null otherwise.  TRUE when a Role is returned.
getRole(its, name) == MapHas(its, name) /\ its[name].type = "role"

\* BaseManager.getRoles(), of the package @iushev/rbac: getItems(ItemType.role)
getRoles(its) == getItems(its, "role")

\* getChildRoles that keeps every name of result, without the pass over
\* getRoles() of lines 78-82.
getChildRoles_NoRoleFilter(its, pars, roleName) ==
    IF ~getRole(its, roleName) THEN [error |-> "RoleNotFound", names |-> {}]
    ELSE [error |-> "", names |-> {roleName} \cup getChildrenRecursive(pars, roleName, {})]

\* getChildRoles(roleName): the role itself, then every role of getRoles()
\* whose name is in the result of getChildrenRecursive.  The result is the
\* set of keys of the Map.
getChildRoles(its, pars, roleName) ==
    IF ~getRole(its, roleName) THEN [error |-> "RoleNotFound", names |-> {}]
    ELSE LET result == getChildrenRecursive(pars, roleName, {})
         IN  [error |-> "",
              names |-> {roleName} \cup {n \in getRoles(its) : n \in result}]

\* getPermissionsByRole that looks at the direct children only.
getPermissionsByRole_DirectChildrenOnly(its, pars, roleName) ==
    {n \in getChildrenOf(pars, roleName) : MapHas(its, n) /\ its[n].type = "permission"}

\* getPermissionsByRole(roleName): the names of the result of
\* getChildrenRecursive that are Permission items.
getPermissionsByRole(its, pars, roleName) ==
    LET result == getChildrenRecursive(pars, roleName, {})
    IN  IF result = {} THEN {}
        ELSE {n \in result : MapHas(its, n) /\ its[n].type = "permission"}

\* canAddChild(parent, child): !detectLoop(parent, child), for each outcome
\* of the walk.
canAddChild(its, pars, parentName, childName) ==
    {IF o = "true" THEN "false" ELSE IF o = "false" THEN "true" ELSE o :
        o \in detectLoop(its, pars, parentName, childName)}

\* The orders in which the keys of the Map pars can be iterated.
KeyOrders(pars) ==
    {s \in [1..Cardinality(DOMAIN pars) -> DOMAIN pars] :
        \A i, j \in DOMAIN s : s[i] = s[j] => i = j}

\* getChildrenRecursive whose loop does not call itself on the pushed child.
RECURSIVE getChildrenRecursiveFrom_NoRecursion(_, _, _, _, _)
getChildrenRecursiveFrom_NoRecursion(pars, name, result, order, i) ==
    IF i > Len(order) THEN result
    ELSE LET childName == order[i]
         IN  IF \/ ~MapHas(pars, childName)
                \/ InSeq(childName, result)
                \/ ~MapHas(pars[childName], name)
             THEN getChildrenRecursiveFrom_NoRecursion(pars, name, result, order, i + 1)
             ELSE getChildrenRecursiveFrom_NoRecursion(pars, name,
                      Append(result, childName), order, i + 1)

\* getChildrenRecursive(name, result) with result as the list it is: the loop
\* of lines 661-667 from the i-th key of this.parents on, the keys being
\* iterated in the given order.
RECURSIVE getChildrenRecursiveFrom(_, _, _, _, _)
getChildrenRecursiveFrom(pars, name, result, order, i) ==
    IF i > Len(order) THEN result
    ELSE LET childName == order[i]
         IN  IF \/ ~MapHas(pars, childName)
                \/ InSeq(childName, result)
                \/ ~MapHas(pars[childName], name)
             THEN getChildrenRecursiveFrom(pars, name, result, order, i + 1)
             ELSE getChildrenRecursiveFrom(pars, name,
                      getChildrenRecursiveFrom(pars, childName,
                          Append(result, childName), order, 1),
                      order, i + 1)

getChildrenRecursiveList(pars, name, result, order) ==
    getChildrenRecursiveFrom(pars, name, result, order, 1)

\* ------------------------------------------------------------ effects
\* The effect of a call: the tables when it ends, what it returns or raises
\* (ret) and the writes it makes when none fails (ws).
Effect(its, pars, asg, rls, ret, ws) ==
    [items |-> its, parents |-> pars, assignments |-> asg, rules |-> rls,
     ret |-> ret, ws |-> ws]

NoEffect(ret) == Effect(items, parents, assignments, rules, ret, <<>>)

\* addItem(item), item a newly constructed object: this.items.set replaces
\* the object stored under the name, if any.
addItem(item) ==
    Effect(MapSet(items, item.name, item),
           IF MapHas(items, item.name) THEN Detach(items, parents, item.name)
           ELSE parents,
           assignments, rules, "true", <<"items">>)

\* addChild(parent, child): the checks before the edge is stored, in the
\* code's order.
\* addChildOutcomes with the kind test of line 149 reversed: it rejects a Role
\* parent of a Permission child and lets a Permission parent a Role.
addChildOutcomes_TypeTestReversed(its, pars, parent, child) ==
    IF ~MapHas(its, parent.name) \/ ~MapHas(its, child.name) THEN {"UnknownItem"}
    ELSE IF parent.name = child.name THEN {"SelfReference"}
    ELSE IF parent.type = "role" /\ child.type = "permission" THEN {"TypeViolation"}
    ELSE {IF o = "true" THEN "CycleDetected"
          ELSE IF o = "overflow" THEN "RangeError"
          ELSE IF hasChild(pars, parent.name, child.name) THEN "DuplicateEdge"
          ELSE "true" : o \in detectLoop(its, pars, parent.name, child.name)}

addChildOutcomes(its, pars, parent, child) ==
    IF ~MapHas(its, parent.name) \/ ~MapHas(its, child.name) THEN {"UnknownItem"}
    ELSE IF parent.name = child.name THEN {"SelfReference"}
    ELSE IF parent.type = "permission" /\ child.type = "role" THEN {"TypeViolation"}
    ELSE {IF o = "true" THEN "CycleDetected"
          ELSE IF o = "overflow" THEN "RangeError"
          ELSE IF hasChild(pars, parent.name, child.name) THEN "DuplicateEdge"
          ELSE "true" : o \in detectLoop(its, pars, parent.name, child.name)}

addChild(parent, child, outcome) ==
    IF outcome # "true" THEN NoEffect(outcome)
    ELSE Effect(items,
                MapSet(parents, child.name,
                       MapSet(IF MapHas(parents, child.name) THEN parents[child.name]
                              ELSE EmptyMap,
                              parent.name, Live)),
                assignments, rules, "true", <<"items">>)

\* removeChild(parent, child)
removeChild(parentName, childName) ==
    IF ~hasChild(parents, parentName, childName) THEN NoEffect("false")
    ELSE Effect(items,
                [parents EXCEPT ![childName] = MapDelete(@, parentName)],
                assignments, rules, "true", <<"items">>)

\* removeChildren(parent): result = result || parents.delete(parent.name)
\* evaluates the delete only while result is false, so the edge of the first
\* child (in the Map's order) that lists the parent is deleted, and only it.
removeChildren(parentName, first) ==
    IF getChildrenOf(parents, parentName) = {} THEN NoEffect("false")
    ELSE Effect(items,
                [parents EXCEPT ![first] = MapDelete(@, parentName)],
                assignments, rules, "true", <<"items">>)

\* removeItem without the purge of the assignments of lines 393-395.
removeItem_KeepsAssignments(name) ==
    IF ~MapHas(items, name) THEN NoEffect("false")
    ELSE Effect(MapDelete(items, name),
                [c \in DOMAIN parents |-> MapDelete(parents[c], name)],
                assignments, rules, "true", <<"items", "assignments">>)

\* removeItem(item)
removeItem(name) ==
    IF ~MapHas(items, name) THEN NoEffect("false")
    ELSE Effect(MapDelete(items, name),
                [c \in DOMAIN parents |-> MapDelete(parents[c], name)],
                [u \in DOMAIN assignments |-> MapDelete(assignments[u], name)],
                rules, "true", <<"items", "assignments">>)

\* updateItem, lines 434-443: the entry keyed name and every parent entry
\* keyed name move to newName, keeping the Item reference they hold.
RekeyParents(pars, name, newName) ==
    LET outer == IF MapHas(pars, name)
                 THEN MapDelete(MapSet(pars, newName, pars[name]), name)
                 ELSE pars
    IN  [c \in DOMAIN outer |->
            IF MapHas(outer[c], name)
            THEN MapDelete(MapSet(outer[c], newName, outer[c][name]), name)
            ELSE outer[c]]

\* updateItem, lines 444-450
RekeyAssignments(asg, name, newName) ==
    [u \in DOMAIN asg |->
        IF MapHas(asg[u], name)
        THEN MapDelete(MapSet(asg[u], newName, newName), name)
        ELSE asg[u]]

\* updateItem without the test of lines 427-429 for a name already in use.
updateItem_NoDuplicateTest(name, item, inPlace, f) ==
    LET its0 == IF inPlace THEN [items EXCEPT ![name] = item] ELSE items
        ws == IF name # item.name THEN <<"assignments", "items">> ELSE <<"items">>
        stored == ~(name # item.name /\ WriteFails(ws, f) /\ f = 1)
        \* the references under name: the same object (inPlace) or the old one
        pars0 == IF MapHas(its0, name) /\ (~inPlace \/ ~stored)
                 THEN Detach(its0, parents, name) ELSE parents
    IN  IF name # item.name
        THEN Effect(IF stored THEN MapSet(MapDelete(its0, name), item.name, item)
                    ELSE MapDelete(its0, name),
                    RekeyParents(pars0, name, item.name),
                    RekeyAssignments(assignments, name, item.name),
                    rules, "true", ws)
        ELSE Effect(MapSet(its0, name, item), pars0, assignments, rules, "true", ws)

\* updateItem(name, item).  inPlace: item is the object stored under name,
\* whose fields the caller has set; otherwise item is a new object.  f is the
\* write that fails: when saveAssignments fails the call ends before
\* this.items.set(item.name, item).
updateItem(name, item, inPlace, f) ==
    LET its0 == IF inPlace THEN [items EXCEPT ![name] = item] ELSE items
        ws == IF name # item.name THEN <<"assignments", "items">> ELSE <<"items">>
        stored == ~(name # item.name /\ WriteFails(ws, f) /\ f = 1)
        \* the references under name: the same object (inPlace) or the old one
        pars0 == IF MapHas(its0, name) /\ (~inPlace \/ ~stored)
                 THEN Detach(its0, parents, name) ELSE parents
    IN  IF name # item.name /\ MapHas(its0, item.name)
        THEN Effect(its0, parents, assignments, rules, "DuplicateItemName", <<>>)
        ELSE IF name # item.name
        THEN Effect(IF stored THEN MapSet(MapDelete(its0, name), item.name, item)
                    ELSE MapDelete(its0, name),
                    RekeyParents(pars0, name, item.name),
                    RekeyAssignments(assignments, name, item.name),
                    rules, "true", ws)
        ELSE Effect(MapSet(its0, name, item), pars0, assignments, rules, "true", ws)

\* removeAllItems without the purge of the assignments of lines 751-757.
removeAllItems_KeepsAssignments(type) ==
    LET names == {n \in DOMAIN items : items[n].type = type}
    IN  IF names = {} THEN NoEffect("void")
        ELSE Effect([n \in (DOMAIN items) \ names |-> items[n]],
                    [c \in (DOMAIN parents) \ names |->
                        [p \in (DOMAIN parents[c]) \ names |-> parents[c][p]]],
                    assignments,
                    rules, "void", <<"items", "assignments">>)

\* removeAllItems(type)
removeAllItems(type) ==
    LET names == {n \in DOMAIN items : items[n].type = type}
    IN  IF names = {} THEN NoEffect("void")
        ELSE Effect([n \in (DOMAIN items) \ names |-> items[n]],
                    [c \in (DOMAIN parents) \ names |->
                        [p \in (DOMAIN parents[c]) \ names |-> parents[c][p]]],
                    [u \in DOMAIN assignments |->
                        [k \in {k \in DOMAIN assignments[u] :
                                    assignments[u][k] \notin names} |->
                            assignments[u][k]]],
                    rules, "void", <<"items", "assignments">>)

\* assign without the test of lines 224-226 for an assignment already held.
assign_NoDuplicateTest(name, username) ==
    IF ~MapHas(items, name) THEN NoEffect("UnknownItem")
    ELSE Effect(items, parents,
                MapSet(assignments, username,
                       MapSet(IF MapHas(assignments, username) THEN assignments[username]
                              ELSE EmptyMap,
                              name, name)),
                rules, "assignment", <<"assignments">>)

\* assign(role, username)
assign(name, username) ==
    IF ~MapHas(items, name) THEN NoEffect("UnknownItem")
    ELSE IF MapHas(assignments, username) /\ MapHas(assignments[username], name)
    THEN NoEffect("DuplicateAssignment")
    ELSE Effect(items, parents,
                MapSet(assignments, username,
                       MapSet(IF MapHas(assignments, username) THEN assignments[username]
                              ELSE EmptyMap,
                              name, name)),
                rules, "assignment", <<"assignments">>)

\* revoke(role, username)
revoke(name, username) ==
    IF ~(MapHas(assignments, username) /\ MapHas(assignments[username], name))
    THEN NoEffect("false")
    ELSE Effect(items, parents,
                [assignments EXCEPT ![username] = MapDelete(@, name)],
                rules, "true", <<"assignments">>)

\* revokeAll(username)
\* revokeAll deleting the user's bucket where line 265 sets an empty one.
revokeAll_DeletesBucket(username) ==
    IF ~MapHas(assignments, username) THEN NoEffect("false")
    ELSE Effect(items, parents, MapDelete(assignments, username),
                rules, "true", <<"assignments">>)

revokeAll(username) ==
    IF ~MapHas(assignments, username) THEN NoEffect("false")
    ELSE Effect(items, parents, MapSet(assignments, username, EmptyMap),
                rules, "true", <<"assignments">>)

\* removeAllAssignments()
removeAllAssignments ==
    Effect(items, parents, EmptyMap, rules, "void", <<"assignments">>)

\* BaseManager.invalidateRbac(), of the package @iushev/rbac: the tables the
\* base class declares (items, parents, rules) are emptied.  The assignments
\* table is declared by JsonManager (line 34) and is cleared by removeAll
\* itself (line 306).
invalidateRbac ==
    [items |-> EmptyMap, parents |-> EmptyMap, rules |-> EmptyMap]

\* removeAll(): no document is written
removeAll ==
    Effect(invalidateRbac.items, invalidateRbac.parents, EmptyMap,
           invalidateRbac.rules, "void", <<>>)

\* load(), lines 493-505: one Role or Permission per entry of the items document
loadItems(doc) ==
    [k \in DOMAIN doc |->
        Item(k, IF doc[k].type = "permission" THEN "permission" ELSE "role",
             doc[k].ruleName, doc[k].description)]

\* load(), lines 507-523: an edge per listed child that is an item
loadParents(doc, pars) ==
    LET listed(c) == {k \in DOMAIN doc : c \in doc[k].children}
        kept(c) == IF MapHas(pars, c) THEN DOMAIN pars[c] ELSE {}
    IN  [c \in (DOMAIN pars) \cup {c \in DOMAIN doc : listed(c) # {}} |->
            [p \in kept(c) \cup (IF c \in DOMAIN doc THEN listed(c) ELSE {}) |->
                IF c \in DOMAIN doc /\ p \in listed(c) THEN Live ELSE pars[c][p]]]

\* load(), lines 525-551: the listed assignments are set into this.assignments
loadAssignments(doc, asg) ==
    LET listed(u) == IF MapHas(doc, u) THEN doc[u] ELSE {}
        kept(u) == IF MapHas(asg, u) THEN DOMAIN asg[u] ELSE {}
    IN  [u \in (DOMAIN asg) \cup {u \in DOMAIN doc : doc[u] # {}} |->
            [k \in kept(u) \cup listed(u) |->
                IF k \in listed(u) THEN k ELSE asg[u][k]]]

\* load(), lines 553-558
loadRules(doc, rls) ==
    [n \in (DOMAIN rls) \cup (DOMAIN doc) |->
        IF MapHas(doc, n) THEN [name |-> n, data |-> doc[n].data] ELSE rls[n]]

\* load(): invalidateRbac(), then the three documents are read into the tables
load ==
    LET its == loadItems(itemsDoc)
    IN  Effect(its,
               loadParents(itemsDoc, invalidateRbac.parents),
               loadAssignments(assignmentsDoc, assignments),
               loadRules(rulesDoc, invalidateRbac.rules),
               "void", <<>>)

\* addRule(rule)
addRule(rule) ==
    Effect(items, parents, assignments, MapSet(rules, rule.name, rule),
           "true", <<"rules">>)

\* removeRule without the test of line 412: every item loses its ruleName.
removeRule_NullsEveryRuleName(name) ==
    IF ~MapHas(rules, name) THEN NoEffect("false")
    ELSE Effect([k \in DOMAIN items |-> [items[k] EXCEPT !.ruleName = Null]],
                parents, assignments, MapDelete(rules, name),
                "true", <<"rules", "items">>)

\* removeRule(rule)
removeRule(name) ==
    IF ~MapHas(rules, name) THEN NoEffect("false")
    ELSE Effect([k \in DOMAIN items |->
                    IF items[k].ruleName = name
                    THEN [items[k] EXCEPT !.ruleName = Null] ELSE items[k]],
                parents, assignments, MapDelete(rules, name),
                "true", <<"rules", "items">>)

\* updateRule without the delete of line 465: the old key stays.
updateRule_KeepsOldKey(name, rule) ==
    Effect([k \in DOMAIN items |->
               IF items[k].ruleName = name
               THEN [items[k] EXCEPT !.ruleName = rule.name] ELSE items[k]],
           parents, assignments, MapSet(rules, rule.name, rule),
           "true", <<"rules", "items">>)

\* updateRule(name, rule): no test that name is a rule, none that rule.name
\* is free
updateRule(name, rule) ==
    Effect([k \in DOMAIN items |->
               IF items[k].ruleName = name
               THEN [items[k] EXCEPT !.ruleName = rule.name] ELSE items[k]],
           parents, assignments,
           MapSet(IF rule.name # name THEN MapDelete(rules, name) ELSE rules,
                  rule.name, rule),
           "true", <<"rules", "items">>)

\* removeAllRules without the loop of lines 326-328 over the items.
removeAllRules_KeepsItemRuleNames ==
    Effect(items, parents, assignments, EmptyMap, "void", <<"items", "rules">>)

\* removeAllRules()
removeAllRules ==
    Effect([k \in DOMAIN items |-> [items[k] EXCEPT !.ruleName = Null]],
           parents, assignments, EmptyMap, "void", <<"items", "rules">>)

\* save()
save ==
    Effect(items, parents, assignments, rules, "void",
           <<"items", "assignments", "rules">>)

\* ------------------------------------------------------------ initial state
Init ==
    /\ items = EmptyMap
    /\ parents = EmptyMap
    /\ assignments = EmptyMap
    /\ rules = EmptyMap
    /\ itemsDoc = EmptyMap
    /\ assignmentsDoc = EmptyMap
    /\ rulesDoc = EmptyMap
    /\ calls = 0
    /\ failures = 0
    /\ last = [op |-> "new", ret |-> "void", writes |-> <<>>, changed |-> FALSE]

\* ------------------------------------------------------------ actions
\* Call undoing the change of the tables when a write fails.
Call_RollsBack(op, e, f) ==
    /\ calls < MaxCalls
    /\ calls' = calls + 1
    /\ f = 0 \/ (WriteFails(e.ws, f) /\ failures < MaxFailures)
    /\ items' = IF WriteFails(e.ws, f) THEN items ELSE e.items
    /\ parents' = IF WriteFails(e.ws, f) THEN parents ELSE e.parents
    /\ assignments' = IF WriteFails(e.ws, f) THEN assignments ELSE e.assignments
    /\ rules' = IF WriteFails(e.ws, f) THEN rules ELSE e.rules
    /\ failures' = IF WriteFails(e.ws, f) THEN failures + 1 ELSE failures
    /\ itemsDoc' = IF InSeq("items", Written(e.ws, f))
                   THEN saveItemsDoc(e.items, e.parents) ELSE itemsDoc
    /\ assignmentsDoc' = IF InSeq("assignments", Written(e.ws, f))
                         THEN saveAssignmentsDoc(e.assignments) ELSE assignmentsDoc
    /\ rulesDoc' = IF InSeq("rules", Written(e.ws, f))
                   THEN saveRulesDoc(e.rules) ELSE rulesDoc
    /\ last' = [op |-> op,
                ret |-> IF WriteFails(e.ws, f) THEN "StorageError" ELSE e.ret,
                writes |-> Attempted(e.ws, f),
                changed |-> ~WriteFails(e.ws, f)
                            /\ <<e.items, e.parents, e.assignments, e.rules>>
                               # <<items, parents, assignments, rules>>]

\* A call with effect e whose write number f fails (0: none): the tables, the
\* documents written before the failure, and the record of the call.
Call(op, e, f) ==
    /\ calls < MaxCalls
    /\ calls' = calls + 1
    /\ f = 0 \/ (WriteFails(e.ws, f) /\ failures < MaxFailures)
    /\ items' = e.items
    /\ parents' = e.parents
    /\ assignments' = e.assignments
    /\ rules' = e.rules
    /\ failures' = IF WriteFails(e.ws, f) THEN failures + 1 ELSE failures
    /\ itemsDoc' = IF InSeq("items", Written(e.ws, f))
                   THEN saveItemsDoc(e.items, e.parents) ELSE itemsDoc
    /\ assignmentsDoc' = IF InSeq("assignments", Written(e.ws, f))
                         THEN saveAssignmentsDoc(e.assignments) ELSE assignmentsDoc
    /\ rulesDoc' = IF InSeq("rules", Written(e.ws, f))
                   THEN saveRulesDoc(e.rules) ELSE rulesDoc
    /\ last' = [op |-> op,
                ret |-> IF WriteFails(e.ws, f) THEN "StorageError" ELSE e.ret,
                writes |-> Attempted(e.ws, f),
                changed |-> <<e.items, e.parents, e.assignments, e.rules>>
                            # <<items, parents, assignments, rules>>]

AddItem(item, f) ==
    Call("addItem", addItem(item), f)

AddChild(parent, child, f) ==
    \E o \in addChildOutcomes(items, parents, parent, child) :
        Call("addChild", addChild(parent, child, o), f)

RemoveChild(parentName, childName, f) ==
    Call("removeChild", removeChild(parentName, childName), f)

RemoveChildren(parentName, f) ==
    \E first \in IF getChildrenOf(parents, parentName) = {} THEN {Null}
                 ELSE getChildrenOf(parents, parentName) :
        Call("removeChildren", removeChildren(parentName, first), f)

RemoveItem(name, f) ==
    Call("removeItem", removeItem(name), f)

UpdateItem(name, item, f) ==
    Call("updateItem", updateItem(name, item, FALSE, f), f)

UpdateItemInPlace(name, newName, ruleName, f) ==
    /\ MapHas(items, name)
    /\ LET item == [items[name] EXCEPT !.name = newName, !.ruleName = ruleName]
       IN  Call("updateItem", updateItem(name, item, TRUE, f), f)

RemoveAllItems(type, f) ==
    Call(IF type = "role" THEN "removeAllRoles" ELSE "removeAllPermissions",
         removeAllItems(type), f)

Assign(name, username, f) ==
    Call("assign", assign(name, username), f)

Revoke(name, username, f) ==
    Call("revoke", revoke(name, username), f)

RevokeAll(username, f) ==
    Call("revokeAll", revokeAll(username), f)

RemoveAllAssignments(f) ==
    Call("removeAllAssignments", removeAllAssignments, f)

RemoveAll ==
    Call("removeAll", removeAll, 0)

Load ==
    Call("load", load, 0)

AddRule(rule, f) ==
    Call("addRule", addRule(rule), f)

RemoveRule(name, f) ==
    Call("removeRule", removeRule(name), f)

UpdateRule(name, rule, f) ==
    Call("updateRule", updateRule(name, rule), f)

RemoveAllRules(f) ==
    Call("removeAllRules", removeAllRules, f)

Save(f) ==
    Call("save", save, f)

\* The hierarchy calls, with no failing write.
NextHierarchy ==
    \/ \E n \in Names, k \in Kinds : AddItem(Item(n, k, Null, Null), 0)
    \/ \E p \in Names, c \in Names, kp \in Kinds, kc \in Kinds :
           AddChild(Item(p, kp, Null, Null), Item(c, kc, Null, Null), 0)
    \/ \E p \in Names, c \in Names : RemoveChild(p, c, 0)
    \/ \E p \in Names : RemoveChildren(p, 0)
    \/ \E n \in Names : RemoveItem(n, 0)
    \/ \E n \in Names, m \in Names, k \in Kinds : UpdateItem(n, Item(m, k, Null, Null), 0)
    \/ \E n \in Names, m \in Names : UpdateItemInPlace(n, m, Null, 0)
    \/ \E k \in Kinds : RemoveAllItems(k, 0)

SpecHierarchy == Init /\ [][NextHierarchy]_vars

\* Every Live reference is under a parent key of the items table.
LiveRefsResolve ==
    \A c \in DOMAIN parents : \A p \in DOMAIN parents[c] :
        parents[c][p] = Live => MapHas(items, p)

\* Items, assignments, rules and the documents, with failing writes.
StoreNames == {"a", "b"}
StoreUsers == {"u1"}
FailChoices == 0..2

NextStore ==
    \/ \E n \in StoreNames, k \in Kinds, f \in FailChoices :
           AddItem(Item(n, k, Null, Null), f)
    \/ \E p \in StoreNames, c \in StoreNames, f \in FailChoices :
           AddChild(Item(p, "role", Null, Null), Item(c, "permission", Null, Null), f)
    \/ \E n \in StoreNames, f \in FailChoices : RemoveItem(n, f)
    \/ \E n \in StoreNames, m \in StoreNames, k \in Kinds, f \in FailChoices :
           UpdateItem(n, Item(m, k, Null, Null), f)
    \/ \E n \in StoreNames, u \in StoreUsers, f \in FailChoices : Assign(n, u, f)
    \/ \E n \in StoreNames, u \in StoreUsers, f \in FailChoices : Revoke(n, u, f)
    \/ \E u \in StoreUsers, f \in FailChoices : RevokeAll(u, f)
    \/ \E f \in FailChoices : RemoveAllAssignments(f)
    \/ \E f \in FailChoices : AddRule([name |-> "r1", data |-> "d1"], f)
    \/ RemoveAll
    \/ Load

SpecStore == Init /\ [][NextStore]_vars

\* Items with rules and descriptions, assignments, the rule calls, save and
\* load, with no failing write.
RuleItemNames == {"a", "b"}

NextRules ==
    \/ \E n \in RuleItemNames, k \in Kinds, rn \in {Null, "r1"} :
           AddItem(Item(n, k, rn, "text"), 0)
    \/ \E p \in RuleItemNames, c \in RuleItemNames :
           AddChild(Item(p, "role", Null, Null), Item(c, "permission", Null, Null), 0)
    \/ \E n \in RuleItemNames, u \in StoreUsers : Assign(n, u, 0)
    \/ \E n \in RuleItemNames : RemoveItem(n, 0)
    \/ \E k \in Kinds : RemoveAllItems(k, 0)
    \/ \E r \in RuleNames : AddRule([name |-> r, data |-> "d1"], 0)
    \/ \E r \in RuleNames : RemoveRule(r, 0)
    \/ \E r \in RuleNames, n \in RuleNames : UpdateRule(r, [name |-> n, data |-> "d2"], 0)
    \/ RemoveAllRules(0)
    \/ Save(0)
    \/ Load

SpecRules == Init /\ [][NextRules]_vars

\* The calls that build and reshape the hierarchy, over three names and with
\* no failing write; addChild is called with new objects of the stored kinds.
NextGraph ==
    \/ \E n \in Names, k \in Kinds : AddItem(Item(n, k, Null, Null), 0)
    \/ \E p \in DOMAIN items, c \in DOMAIN items :
           AddChild(Item(p, items[p].type, Null, Null),
                    Item(c, items[c].type, Null, Null), 0)
    \/ \E n \in DOMAIN items, m \in Names :
           UpdateItem(n, Item(m, items[n].type, Null, Null), 0)
    \/ \E n \in DOMAIN items : RemoveItem(n, 0)

SpecGraph == Init /\ [][NextGraph]_vars

\* The calls that add, rename and remove items and assignments, with no
\* failing write and without load.
NextAssignments ==
    \/ \E n \in StoreNames, k \in Kinds : AddItem(Item(n, k, Null, Null), 0)
    \/ \E n \in StoreNames, m \in StoreNames, k \in Kinds :
           UpdateItem(n, Item(m, k, Null, Null), 0)
    \/ \E n \in StoreNames, m \in StoreNames : UpdateItemInPlace(n, m, Null, 0)
    \/ \E n \in StoreNames : RemoveItem(n, 0)
    \/ \E k \in Kinds : RemoveAllItems(k, 0)
    \/ \E n \in StoreNames, u \in Users : Assign(n, u, 0)
    \/ \E n \in StoreNames, u \in Users : Revoke(n, u, 0)
    \/ \E u \in Users : RevokeAll(u, 0)
    \/ RemoveAllAssignments(0)
    \/ RemoveAll

SpecAssignments == Init /\ [][NextAssignments]_vars

\* ------------------------------------------------------------ graph notions
\* The names reachable from the names of frontier along the edges of E.
RECURSIVE ReachFrom(_, _, _)
ReachFrom(E, frontier, seen) ==
    LET next == {e[2] : e \in {e \in E : e[1] \in frontier}} \ seen
    IN  IF next = {} THEN seen ELSE ReachFrom(E, next, seen \cup next)

\* The transitive descendants of n: what a path of one or more edges reaches.
Descendants(pars, n) == ReachFrom(Edges(pars), {n}, {})

\* The <<username, itemName>> pairs of an assignments table.
AssignmentPairs(asg) ==
    {pr \in (DOMAIN asg) \X Names : \E k \in DOMAIN asg[pr[1]] : asg[pr[1]][k] = pr[2]}

Arg(name, type) == Item(name, type, Null, Null)

\* ------------------------------------------------------------ claims
\* C1 (the part that does not depend on which error is raised): when child is
\* already a transitive ancestor of parent, both existing items, addChild(parent,
\* child) does not succeed: it raises an error, adds no edge and writes nothing.
C1_LoopClosingAddChildFails ==
    [][\A p \in Names, c \in Names :
         ( /\ MapHas(items, p) /\ MapHas(items, c)
           /\ p \in Descendants(parents, c)
           /\ last'.op = "addChild"
           /\ AddChild(Arg(p, items[p].type), Arg(c, items[c].type), 0) )
         => /\ last'.ret # "true"
            /\ Edges(parents') = Edges(parents)
            /\ last'.writes = <<>>]_vars

\* C2: the hierarchy is acyclic in every reachable state: no item is its own
\* transitive descendant.
C2_Acyclic ==
    \A n \in DOMAIN items : n \notin Descendants(parents, n)

C4_RemoveChildrenRemovesAll ==
    [][\A p \in Names :
         (last'.op = "removeChildren" /\ RemoveChildren(p, 0))
         => /\ getChildrenOf(parents', p) = {}
            /\ {e \in Edges(parents') : e[1] # p} = {e \in Edges(parents) : e[1] # p}
            /\ (last'.ret = "true") <=> (getChildrenOf(parents, p) # {})
            /\ last'.writes = IF last'.ret = "true" THEN <<"items">> ELSE <<>>]_vars

\* C5: after removeItem(X) succeeds, X is not an item, is no child of any
\* parent, is no parent of any item and is in no assignment bucket.
C5_RemoveItemCascades ==
    [][\A x \in Names :
         (last'.op = "removeItem" /\ last'.ret = "true" /\ RemoveItem(x, 0))
         => /\ ~MapHas(items', x)
            /\ \A n \in Names : ~hasChild(parents', n, x) /\ ~hasChild(parents', x, n)
            /\ \A u \in DOMAIN assignments' : ~MapHas(assignments'[u], x)]_vars

\* The name n after old has been renamed to new.
Renamed(old, new, n) == IF n = old THEN new ELSE n

\* C6: after updateItem(oldName, item) with a new, unused name, the item is
\* found under the new name only, every edge and assignment of oldName is one
\* of the new name, no edge mentions oldName as a key or in the name of its
\* Item reference, and everything else is unchanged.
C6_RenameCascades ==
    [][\A old \in Names, new \in Names, k \in Kinds :
         ( /\ old # new /\ ~MapHas(items, new)
           /\ last'.op = "updateItem"
           /\ \/ UpdateItem(old, Arg(new, k), 0)
              \/ UpdateItemInPlace(old, new, Null, 0) )
         => /\ MapHas(items', new) /\ ~MapHas(items', old)
            /\ \A n \in Names \ {old, new} :
                   MapHas(items', n) = MapHas(items, n)
                   /\ (MapHas(items, n) => items'[n] = items[n])
            /\ Edges(parents') =
                   {<<Renamed(old, new, e[1]), Renamed(old, new, e[2])>> :
                        e \in Edges(parents)}
            /\ \A c \in DOMAIN parents' : \A p \in DOMAIN parents'[c] :
                   c # old /\ p # old /\ RefName(items', p, parents'[c][p]) # old
            /\ AssignmentPairs(assignments') =
                   {<<pr[1], Renamed(old, new, pr[2])>> :
                        pr \in AssignmentPairs(assignments)}
            /\ \A u \in DOMAIN assignments' : ~MapHas(assignments'[u], old)]_vars

\* C7: addChild(parent, child) with parent a Permission and child a Role, both
\* existing items, raises the type-violation error in every hierarchy state and
\* leaves the tables and the documents unchanged.
C7_PermissionCannotParentRole ==
    [][\A p \in DOMAIN items, c \in DOMAIN items :
         ( /\ last'.op = "addChild" /\ p # c
           /\ AddChild(Arg(p, "permission"), Arg(c, "role"), 0) )
         => /\ last'.ret = "TypeViolation"
            /\ last'.writes = <<>>
            /\ parents' = parents /\ items' = items
            /\ itemsDoc' = itemsDoc]_vars

\* a state C7 is about: addChild has just raised the type violation in a
\* hierarchy that already has an edge
C7_Witness ==
    /\ last.op = "addChild" /\ last.ret = "TypeViolation"
    /\ Edges(parents) # {}
    /\ \E p \in DOMAIN items, c \in DOMAIN items :
           items[p].type = "permission" /\ items[c].type = "role"

\* C8: no edge has a parent that is now a Permission and a child that is now a
\* Role, and the kind recorded for a name does not change while the item
\* exists.
C8_KindsAndDirection ==
    /\ [](\A e \in Edges(parents) :
              (MapHas(items, e[1]) /\ MapHas(items, e[2]))
              => ~(items[e[1]].type = "permission" /\ items[e[2]].type = "role"))
    /\ [][\A n \in Names :
              (MapHas(items, n) /\ MapHas(items', n)) => items'[n].type = items[n].type]_vars

\* The Permission items assigned to u or reachable through child edges from an
\* item assigned to u.
ExpectedPermissions(u) ==
    LET assigned == {pr[2] : pr \in {pr \in AssignmentPairs(assignments) : pr[1] = u}}
    IN  {n \in DOMAIN items :
            /\ items[n].type = "permission"
            /\ n \in assigned \/ \E a \in assigned : n \in Descendants(parents, a)}

\* C9: in every state and for every user u, getPermissionsByUser(u) returns
\* exactly the Permission items assigned to u or reachable through child edges
\* from an item assigned to u.
C9_PermissionsByUser ==
    \A u \in Users :
        LET got == getPermissionsByUser(items, parents, assignments, u)
        IN  got.error = "" /\ got.names = ExpectedPermissions(u)

\* User u has one assignment or more.
HasAssignments(asg, u) == MapHas(asg, u) /\ DOMAIN asg[u] # {}

\* C10 as stated: without a storage error, revokeAll(u) returns false and
\* writes nothing whenever u has no assignments; when u has one or more it
\* returns true, rewrites the assignments document and leaves u's bucket
\* present and empty.
C10_Original ==
    [][\A u \in Users :
         (last'.op = "revokeAll" /\ RevokeAll(u, 0))
         => IF ~HasAssignments(assignments, u)
            THEN last'.ret = "false" /\ last'.writes = <<>>
            ELSE /\ last'.ret = "true" /\ last'.writes = <<"assignments">>
                 /\ MapHas(assignments', u) /\ DOMAIN assignments'[u] = {}]_vars

\* C10 as amended: revokeAll(u) returns false, changes nothing and writes
\* nothing whenever u has no bucket; whenever u has a bucket, with assignments
\* or already empty, it leaves the bucket present and empty and the other
\* buckets as they were, and rewrites the assignments document and returns
\* true, or raises the storage error of the failed write, the document
\* keeping its content.
C10_RevokeAll ==
    [][\A u \in Users, f \in 0..1 :
         (last'.op = "revokeAll" /\ RevokeAll(u, f))
         => IF ~MapHas(assignments, u)
            THEN /\ last'.ret = "false" /\ last'.writes = <<>>
                 /\ assignments' = assignments /\ assignmentsDoc' = assignmentsDoc
            ELSE /\ MapHas(assignments', u) /\ DOMAIN assignments'[u] = {}
                 /\ \A v \in (DOMAIN assignments) \ {u} :
                        MapHas(assignments', v) /\ assignments'[v] = assignments[v]
                 /\ last'.writes = <<"assignments">>
                 /\ \/ /\ f = 0 /\ last'.ret = "true"
                       /\ assignmentsDoc' = [v \in DOMAIN assignments' |->
                              {pr[2] : pr \in {pr \in AssignmentPairs(assignments') :
                                                   pr[1] = v}}]
                    \/ /\ f = 1 /\ last'.ret = "StorageError"
                       /\ assignmentsDoc' = assignmentsDoc]_vars

\* a state C10 is about: revokeAll has returned true for a user whose bucket
\* was already empty, and the bucket is still there
C10_Witness ==
    /\ last.op = "revokeAll" /\ last.ret = "true"
    /\ ~last.changed
    /\ \E u \in DOMAIN assignments : DOMAIN assignments[u] = {}
    /\ \E u \in DOMAIN assignmentsDoc : assignmentsDoc[u] = {}

\* C11: in every reachable state, save() followed by load() gives back the
\* same items (name, kind, description, ruleName), the same edge set and the
\* same set of (username, itemName) assignments.
C11_SaveLoadRoundTrip ==
    [][(last.op = "save" /\ last.ret = "void" /\ last'.op = "load")
         => /\ items' = items
            /\ Edges(parents') = Edges(parents)
            /\ AssignmentPairs(assignments') = AssignmentPairs(assignments)]_vars

\* The three documents encode the tables: each is what its save would write.
DocsAgree(its, pars, asg, rls, iDoc, aDoc, rDoc) ==
    /\ iDoc = saveItemsDoc(its, pars)
    /\ aDoc = saveAssignmentsDoc(asg)
    /\ rDoc = saveRulesDoc(rls)

\* C12: when memory and documents agree and a mutating call returns without a
\* storage error, memory and documents agree again.
C12_MutationsPersist ==
    [][( /\ DocsAgree(items, parents, assignments, rules,
                      itemsDoc, assignmentsDoc, rulesDoc)
         /\ last'.op # "load" /\ last'.ret # "StorageError" )
         => DocsAgree(items', parents', assignments', rules',
                      itemsDoc', assignmentsDoc', rulesDoc')]_vars

\* The Item a caller obtained from the table under name n (a Role when there
\* is none).
StoredArg(n) == Arg(n, IF MapHas(items, n) THEN items[n].type ELSE "role")

\* The conditions under which addChild(p, c) is to succeed.
AddChildAllowed(p, c) ==
    /\ MapHas(items, p) /\ MapHas(items, c)
    /\ p # c
    /\ ~(items[p].type = "permission" /\ items[c].type = "role")
    /\ ~hasChild(parents, p, c)
    /\ p \notin Descendants(parents, c)

\* C13: addChild(parent, child) returns true, adds exactly the edge
\* parent->child and rewrites the items document if and only if both names
\* exist, they differ, parent is not a Permission with child a Role, the edge
\* is not there yet and child is not a transitive ancestor of parent; in every
\* other case it raises an error, the edge set is unchanged and nothing is
\* written.
C13_AddChildSucceedsIff ==
    [][\A p \in Names, c \in Names :
         (last'.op = "addChild" /\ AddChild(StoredArg(p), StoredArg(c), 0))
         => IF AddChildAllowed(p, c)
            THEN /\ last'.ret = "true"
                 /\ Edges(parents') = Edges(parents) \cup {<<p, c>>}
                 /\ last'.writes = <<"items">>
            ELSE /\ last'.ret # "true"
                 /\ Edges(parents') = Edges(parents)
                 /\ last'.writes = <<>>]_vars

\* C14: assign(item, u) raises the unknown-item error when item.name is not in
\* the items table and the duplicate-assignment error when u already holds
\* item.name, leaving the assignments and their document unchanged and writing
\* nothing; otherwise it adds exactly the pair (u, item.name) and rewrites the
\* assignments document.  In every reachable state a bucket holds an item name
\* once: each entry is keyed by the itemName it carries.
C14_Assign ==
    /\ [](\A u \in DOMAIN assignments : \A k \in DOMAIN assignments[u] :
              assignments[u][k] = k)
    /\ [][\A n \in Names, u \in Users :
            (last'.op = "assign" /\ Assign(n, u, 0))
            => IF ~MapHas(items, n) \/ <<u, n>> \in AssignmentPairs(assignments)
               THEN /\ last'.ret = IF ~MapHas(items, n) THEN "UnknownItem"
                                   ELSE "DuplicateAssignment"
                    /\ assignments' = assignments
                    /\ assignmentsDoc' = assignmentsDoc
                    /\ last'.writes = <<>>
               ELSE /\ last'.ret = "assignment"
                    /\ AssignmentPairs(assignments') =
                           AssignmentPairs(assignments) \cup {<<u, n>>}
                    /\ last'.writes = <<"assignments">>
                    /\ assignmentsDoc' = saveAssignmentsDoc(assignments')]_vars

\* a state C14 is about: assign has just raised the duplicate-assignment
\* error and the pair is held once
C14_Witness ==
    /\ last.op = "assign" /\ last.ret = "DuplicateAssignment"
    /\ \E u \in DOMAIN assignments : DOMAIN assignments[u] # {}
    /\ assignmentsDoc = saveAssignmentsDoc(assignments)

\* C15: updateItem(oldName, item) with item.name different from oldName and
\* already a key of the items table raises the duplicate-name error; items,
\* edges, assignments and the three documents are unchanged and nothing is
\* written.
C15_RenameToUsedNameFails ==
    [][\A new \in DOMAIN items : \A old \in StoreNames \ {new}, k \in Kinds :
         (last'.op = "updateItem" /\ UpdateItem(old, Arg(new, k), 0))
         => /\ last'.ret = "DuplicateItemName"
            /\ last'.writes = <<>>
            /\ items' = items /\ parents' = parents /\ assignments' = assignments
            /\ itemsDoc' = itemsDoc /\ assignmentsDoc' = assignmentsDoc
            /\ rulesDoc' = rulesDoc]_vars

\* a state C15 is about: updateItem has just raised the duplicate-name error
\* in a store that has an edge and an assignment
C15_Witness ==
    /\ last.op = "updateItem" /\ last.ret = "DuplicateItemName"
    /\ Edges(parents) # {}
    /\ AssignmentPairs(assignments) # {}

\* The content of the document named w, among given contents.
DocOf(w, iDoc, aDoc, rDoc) ==
    IF w = "items" THEN iDoc ELSE IF w = "assignments" THEN aDoc ELSE rDoc

\* C16: a call whose write fails raises the storage error and its change of
\* the tables stays: after addChild(p, c) whose write fails hasChild(p, c) is
\* true, after assign(n, u) whose write fails u holds n, and in both cases,
\* as after every call that raises the storage error, the document whose
\* write failed holds its previous content.
C16_FailedWriteKeepsMemory ==
    [][/\ \A p \in StoreNames, c \in StoreNames :
            ( /\ last'.op = "addChild"
              /\ AddChild(Arg(p, "role"), Arg(c, "permission"), 1) )
            => /\ last'.ret = "StorageError"
               /\ ~hasChild(parents, p, c) /\ hasChild(parents', p, c)
               /\ itemsDoc' = itemsDoc
       /\ \A n \in StoreNames, u \in StoreUsers :
            (last'.op = "assign" /\ Assign(n, u, 1))
            => /\ last'.ret = "StorageError"
               /\ <<u, n>> \in AssignmentPairs(assignments')
                             \ AssignmentPairs(assignments)
               /\ assignmentsDoc' = assignmentsDoc
       /\ (last' # last /\ last'.ret = "StorageError")
            => LET w == last'.writes[Len(last'.writes)]
               IN  DocOf(w, itemsDoc', assignmentsDoc', rulesDoc')
                       = DocOf(w, itemsDoc, assignmentsDoc, rulesDoc)]_vars

\* a state C16 is about: the write of addChild has failed, the edge is in
\* memory and the items document lists no child
C16_Witness ==
    /\ last.op = "addChild" /\ last.ret = "StorageError"
    /\ Edges(parents) # {}
    /\ \A k \in DOMAIN itemsDoc : itemsDoc[k].children = {}

\* C17: removeRule(R) on an existing rule removes R from the rules table and
\* sets ruleName to null on the items whose ruleName was R.name; every other
\* item, every other rule, the edges and the assignments are unchanged.
\* removeItem leaves the rules table and the rules document as they were.
C17_RemoveRuleFrame ==
    [][/\ \A r \in DOMAIN rules :
            (last'.op = "removeRule" /\ RemoveRule(r, 0))
            => /\ last'.ret = "true"
               /\ rules' = MapDelete(rules, r)
               /\ DOMAIN items' = DOMAIN items
               /\ \A k \in DOMAIN items :
                      items'[k] = IF items[k].ruleName = r
                                  THEN [items[k] EXCEPT !.ruleName = Null]
                                  ELSE items[k]
               /\ parents' = parents /\ assignments' = assignments
       /\ \A n \in Names :
            (last'.op = "removeItem" /\ RemoveItem(n, 0))
            => rules' = rules /\ rulesDoc' = rulesDoc]_vars

\* a state C17 is about: removeRule has just removed a rule, an item has lost
\* its ruleName, another item keeps the ruleName of a rule that is still there
C17_Witness ==
    /\ last.op = "removeRule" /\ last.ret = "true"
    /\ \E a \in DOMAIN items, b \in DOMAIN items :
           /\ items[a].ruleName = Null
           /\ items[b].ruleName # Null /\ MapHas(rules, items[b].ruleName)
    /\ itemsDoc = saveItemsDoc(items, parents)

\* C18: updateRule(oldName, rule) with rule.name different from oldName
\* returns true, also when rule.name is already the name of another rule;
\* afterwards oldName is no rule, rule.name is the given rule, every item
\* whose ruleName was oldName has ruleName rule.name, and every other item,
\* every other rule, the edges and the assignments are unchanged.
C18_RuleRenameCascades ==
    [][\A old \in RuleNames, new \in RuleNames :
         ( /\ last'.op = "updateRule" /\ old # new
           /\ UpdateRule(old, [name |-> new, data |-> "d2"], 0) )
         => /\ last'.ret = "true"
            /\ ~MapHas(rules', old)
            /\ MapHas(rules', new) /\ rules'[new] = [name |-> new, data |-> "d2"]
            /\ \A n \in (DOMAIN rules) \ {old, new} :
                   MapHas(rules', n) /\ rules'[n] = rules[n]
            /\ DOMAIN rules' \subseteq (DOMAIN rules) \cup {new}
            /\ DOMAIN items' = DOMAIN items
            /\ \A k \in DOMAIN items :
                   items'[k] = IF items[k].ruleName = old
                               THEN [items[k] EXCEPT !.ruleName = new]
                               ELSE items[k]
            /\ parents' = parents /\ assignments' = assignments]_vars

\* a state C18 is about: updateRule has just made r2 the only rule, and an
\* item carries the ruleName r2, which no addItem of this specification gives
C18_Witness ==
    /\ last.op = "updateRule" /\ last.ret = "true"
    /\ DOMAIN rules = {"r2"} /\ rules["r2"].data = "d2"
    /\ \E k \in DOMAIN items : items[k].ruleName = "r2"
    /\ rulesDoc = saveRulesDoc(rules)

\* The name of the call that removes the items of kind k.
RemoveAllOp(k) == IF k = "role" THEN "removeAllRoles" ELSE "removeAllPermissions"

\* What removeAllRoles / removeAllPermissions leaves in the tables, names being
\* the items of the kind before the call.
RemoveAllItemsTables(names) ==
    /\ DOMAIN items' = (DOMAIN items) \ names
    /\ \A n \in DOMAIN items' : items'[n] = items[n]
    /\ \A e \in Edges(parents') : e[1] \notin names /\ e[2] \notin names
    /\ Edges(parents') = {e \in Edges(parents) : e[1] \notin names /\ e[2] \notin names}
    /\ \A u \in DOMAIN assignments' : \A n \in names : ~MapHas(assignments'[u], n)
    /\ AssignmentPairs(assignments') =
           {pr \in AssignmentPairs(assignments) : pr[2] \notin names}
    /\ rules' = rules

\* C19 as stated: after removeAllRoles() (removeAllPermissions()) no item of
\* the kind remains, no edge and no bucket mentions a removed name, the other
\* items, the rules and the edges and assignments among the remaining items
\* are unchanged, and the items and the assignments documents are each written
\* once.
C19_Original ==
    [][\A k \in Kinds :
         (last'.op = RemoveAllOp(k) /\ RemoveAllItems(k, 0))
         => /\ RemoveAllItemsTables({n \in DOMAIN items : items[n].type = k})
            /\ last'.writes = <<"items", "assignments">>]_vars

\* C19 as amended: the same effect on the tables; the items document and then
\* the assignments document are each written once, from the new tables, when
\* an item of the kind existed, and nothing is written when none did.
C19_RemoveAllOfKind ==
    [][\A k \in Kinds :
         (last'.op = RemoveAllOp(k) /\ RemoveAllItems(k, 0))
         => LET names == {n \in DOMAIN items : items[n].type = k}
            IN  /\ RemoveAllItemsTables(names)
                /\ last'.ret = "void"
                /\ IF names = {}
                   THEN /\ last'.writes = <<>>
                        /\ itemsDoc' = itemsDoc /\ assignmentsDoc' = assignmentsDoc
                   ELSE /\ last'.writes = <<"items", "assignments">>
                        /\ itemsDoc' = saveItemsDoc(items', parents')
                        /\ assignmentsDoc' = saveAssignmentsDoc(assignments')
                /\ rulesDoc' = rulesDoc]_vars

\* a state C19 is about: removeAllRoles has just removed a role that had an
\* assignment, and an item and an assignment of the other kind remain
C19_Witness ==
    /\ last.op = "removeAllRoles" /\ last.writes = <<"items", "assignments">>
    /\ \E u \in DOMAIN assignments : \E k \in DOMAIN assignments[u] :
           MapHas(items, k) /\ items[k].type = "permission"
    /\ itemsDoc = saveItemsDoc(items, parents)
    /\ assignmentsDoc = saveAssignmentsDoc(assignments)

\* C20: in every state and for every user u, getRolesByUser(u) does not fail
\* and returns exactly the default roles and the Role items assigned to u
\* directly: no Permission, no role reached through the hierarchy only, no
\* name of an assignment whose item is not in the table.
C20_RolesByUser ==
    \A u \in Users :
        LET got == getRolesByUser(items, assignments, u)
        IN  /\ got.error = ""
            /\ got.names = DefaultRoles \cup
                   {n \in DOMAIN items :
                       items[n].type = "role" /\ <<u, n>> \in AssignmentPairs(assignments)}

\* a state C20 is about: a user holds a Role that has a child, together with
\* an assignment whose item is not in the table
C20_Witness ==
    \E u \in DOMAIN assignments : \E r \in DOMAIN assignments[u], m \in DOMAIN assignments[u] :
        /\ MapHas(items, r) /\ items[r].type = "role"
        /\ ~MapHas(items, m)
        /\ getRolesByUser(items, assignments, u).names = DefaultRoles \cup {r}

\* C21: in every state and for every name r, getChildRoles(r) raises the
\* role-not-found error when r is not a Role item; otherwise it returns r and
\* the Role items among the transitive descendants of r, and nothing else (no
\* Permission).
C21_ChildRoles ==
    \A r \in Names :
        LET got == getChildRoles(items, parents, r)
        IN  IF MapHas(items, r) /\ items[r].type = "role"
            THEN /\ got.error = ""
                 /\ got.names = {r} \cup
                        {n \in Descendants(parents, r) :
                            MapHas(items, n) /\ items[n].type = "role"}
            ELSE got.error = "RoleNotFound"

\* a state C21 is about: a role whose descendants hold another role and a
\* permission, and a name that is not a role
C21_Witness ==
    \E r \in DOMAIN items, n \in DOMAIN items, m \in DOMAIN items :
        /\ n # r /\ n \in getChildRoles(items, parents, r).names
        /\ items[m].type = "permission" /\ m \in Descendants(parents, r)
        /\ getChildRoles(items, parents, m).error = "RoleNotFound"

\* C22: in every state and for every name r, getPermissionsByRole(r) returns
\* the Permission items among the transitive descendants of r, and nothing
\* else: no Role, no name that is not in the items table; it is empty when r
\* has no descendant.
C22_PermissionsByRole ==
    \A r \in Names :
        getPermissionsByRole(items, parents, r) =
            {n \in Descendants(parents, r) :
                MapHas(items, n) /\ items[n].type = "permission"}

\* a state C22 is about: a role holds a permission through a child role,
\* while another name has no descendant
C22_Witness ==
    \E r \in DOMAIN items, n \in DOMAIN items, m \in DOMAIN items :
        /\ items[n].type = "role" /\ hasChild(parents, r, n)
        /\ items[m].type = "permission" /\ hasChild(parents, n, m)
        /\ ~hasChild(parents, r, m)
        /\ getPermissionsByRole(items, parents, r) = {m}
        /\ getPermissionsByRole(items, parents, m) = {}

\* C23: in every state and for every two names, canAddChild(parent, child)
\* returns false when parent = child or child is a transitive ancestor of
\* parent, and true otherwise; it has no other outcome.
C23_CanAddChild ==
    \A p \in Names, c \in Names :
        canAddChild(items, parents, p, c) =
            {IF p = c \/ p \in Descendants(parents, c) THEN "false" ELSE "true"}

\* The elements of a list, and whether each occurs once.
ListNames(s) == {s[i] : i \in DOMAIN s}
EachOnce(s) == \A i, j \in DOMAIN s : s[i] = s[j] => i = j

\* C24: in every state (the hierarchy may hold a cycle), for every iteration
\* order of the parents table and every name n, getChildrenRecursive(n, [])
\* returns and leaves in the list exactly the names reachable from n along
\* child edges, each once; a second call for a name m on the same list leaves
\* exactly the union of the two descendant sets, each name once.
C24_ChildrenRecursive ==
    LET desc == [n \in Names |-> Descendants(parents, n)]
    IN  \A order \in KeyOrders(parents) : \A n \in Names :
            LET first == getChildrenRecursiveList(parents, n, <<>>, order)
            IN  /\ EachOnce(first)
                /\ ListNames(first) = desc[n]
                /\ \A m \in Names :
                       LET second == getChildrenRecursiveList(parents, m, first, order)
                       IN  /\ EachOnce(second)
                           /\ ListNames(second) = desc[n] \cup desc[m]

\* a state C24 is about: a hierarchy with a cycle through n, where the call
\* for n returns a list of two names that ends with n itself
C24_Witness ==
    \E n \in Names :
        /\ n \in Descendants(parents, n)
        /\ \E order \in KeyOrders(parents) :
               LET first == getChildrenRecursiveList(parents, n, <<>>, order)
               IN  Len(first) = 2 /\ first[2] = n

\* C25: in every state reached by assign, revoke, revokeAll, addItem,
\* updateItem, removeItem, removeAllRoles, removeAllPermissions,
\* removeAllAssignments and removeAll with no failed write, every assignment
\* names an item of the items table and is stored under its itemName.
C25_AssignmentsNameItems ==
    \A u \in DOMAIN assignments : \A k \in DOMAIN assignments[u] :
        /\ assignments[u][k] = k
        /\ MapHas(items, k)

\* a state C25 is about: a rename has just moved an assignment to the new
\* name, and another user still holds an assignment
C25_Witness ==
    /\ last.op = "updateItem" /\ last.writes = <<"assignments", "items">>
    /\ last.changed
    /\ \E u \in DOMAIN assignments, v \in DOMAIN assignments :
           u # v /\ assignments[u] # EmptyMap /\ assignments[v] # EmptyMap

\* The <<username, itemName>> pairs an assignments document lists.
ListedPairs(doc) == {pr \in (DOMAIN doc) \X Names : pr[2] \in doc[pr[1]]}

C27_RemoveAllRulesFrame ==
    [][(last'.op = "removeAllRules" /\ RemoveAllRules(0))
       => /\ rules' = EmptyMap
          /\ DOMAIN items' = DOMAIN items
          /\ \A k \in DOMAIN items :
                 items'[k] = [items[k] EXCEPT !.ruleName = Null]
          /\ parents' = parents /\ assignments' = assignments
          /\ last'.writes = <<"items", "rules">>
          /\ itemsDoc' = saveItemsDoc(items', parents')
          /\ rulesDoc' = saveRulesDoc(rules') /\ rulesDoc' = EmptyMap
          /\ assignmentsDoc' = assignmentsDoc]_vars

\* a state C27 is about: removeAllRules has just changed a table of a store
\* that has items, an edge and an assignment
C27_Witness ==
    /\ last.op = "removeAllRules" /\ last.changed
    /\ Edges(parents) # {}
    /\ AssignmentPairs(assignments) # {}
    /\ rules = EmptyMap
    /\ \A k \in DOMAIN items : items[k].ruleName = Null

\* C28: in every state and for every two items, the walk of
\* detectLoop(parent, child) ends: it never comes back to a name that is on
\* its own call stack.
C28_DetectLoopTerminates ==
    \A p \in DOMAIN items, c \in DOMAIN items :
        "overflow" \notin detectLoop(items, parents, p, c)

\* C29: when updateItem(old, item) renames an item of the table to an unused
\* name and ends, by returning or by a storage error of either write, the
\* items table holds the item under exactly one of the two names, and no
\* assignment or edge re-keyed to the new name refers to a name the table
\* lacks.
C29_RenamedItemStaysInTable ==
    [][\A old \in DOMAIN items : \A new \in StoreNames \ DOMAIN items, k \in Kinds,
           f \in FailChoices :
         (last'.op = "updateItem" /\ UpdateItem(old, Arg(new, k), f))
         => /\ MapHas(items', old) # MapHas(items', new)
            /\ \A u \in DOMAIN assignments' :
                   MapHas(assignments'[u], new) => MapHas(items', new)
            /\ \A e \in Edges(parents') :
                   new \in {e[1], e[2]} => MapHas(items', new)]_vars
====
